---- MODULE Spec2Model ----
(***************************************************************************)
(* logsh: the connection and authentication lifecycle.                     *)
(*                                                                         *)
(* State machines over the same data model:                                *)
(*   SpecAuth  Connection::refresh_auth driven on one in-memory Connection *)
(*             (logsh-core/src/connect.rs, auth/mod.rs, auth/jwt.rs,       *)
(*             auth/oauth.rs);                                             *)
(*   Spec      the CLI invocations that read, change and write the         *)
(*             persisted Configuration (src/connect.rs, main.rs,           *)
(*             logsh-core/src/config.rs);                                  *)
(*   SpecRace  two `connection add basic` invocations running at once on   *)
(*             one configuration file, each load and save a step;          *)
(*   SpecPoll  the poll loop of one device flow (auth/oauth.rs:82-91 and   *)
(*             the device-token request of the oauth2 crate it calls).     *)
(*   SpecStore config::load and config::save on files written by save,    *)
(*             written by hand, malformed or missing (config.rs);          *)
(*   SpecPath  get_configuration_path and its process-wide cache while the *)
(*             environment and the file system change (config.rs);         *)
(*   SpecConnect  add_connect as a library call (connect.rs);              *)
(*   SpecSub   the connection commands of basic-auth connections together  *)
(*             with `subscription default` (src/subscription.rs).          *)
(*                                                                         *)
(* Time is a natural number of abstract units (one unit stands for one     *)
(* hour of the JWT window and for one second of the OAuth lifetimes; the   *)
(* code only adds and compares them).  Option<T> is a sequence of length   *)
(* at most one.  Every reply of the outside world (password prompt, HTTP   *)
(* servers) is an input drawn from a small set: an `env` record.           *)
(***************************************************************************)
EXTENDS Integers, Sequences, FiniteSets, TLC

VARIABLES
    now,     \* Utc::now(), the wall clock
    conn,    \* SpecAuth: the Connection refresh_auth is called on
    file,    \* the configuration file: [exists, content], content the JSON
    result,  \* what the last operation did: its inputs, outcome and calls
    proc     \* SpecRace: the invocations in flight; SpecPath: the process

vars == <<now, conn, file, result, proc>>

---------------------------------------------------------------------------
(* Bounds of the model.                                                    *)

\* the clock runs from 0 to MaxTime
MaxTime == 2
\* the device code's expires_in (device-authorize response) is 0..MaxDeviceExpiresIn
MaxDeviceExpiresIn == 1
\* the token's expires_in (token response) is 0..MaxExpiresIn
MaxExpiresIn == 1
\* the poll interval of a device flow is 0..MaxInterval
MaxInterval == 2
\* the token endpoint answers authorization_pending or slow_down at most
\* MaxPending times before its final answer, or for ever
MaxPending == 2

\* Duration::hours(24): the client-assigned validity of a JWT
JwtValidity == 24

\* The number ranges of the code, scaled down in their order:
\*   DateTime<Utc> (MinDateTime..MaxDateTime) holds every sum of in-range
\*   operands, chrono::Duration (-DurationMax..DurationMax seconds) is wider,
\*   i64 (..I64Max) wider still, and u64 (0..U64Max) has twice as many values.
MaxDateTime == MaxTime + JwtValidity + MaxDeviceExpiresIn + MaxExpiresIn
MinDateTime == 0 - MaxDateTime
DurationMax == MaxDateTime + 2
I64Max == DurationMax + 2
U64Max == 2 * I64Max + 1
\* A lifetime sent by a server that no DateTime can hold once added.
OutOfRange == MaxDateTime + 1

\* `as i64` on a u64: the same 64 bits read as two's complement
AsI64(u) == IF u > I64Max THEN u - (U64Max + 1) ELSE u

\* chrono::Duration::seconds(s) panics when s is out of its bounds
DurationInBounds(s) == s <= DurationMax /\ s >= 0 - DurationMax

\* DateTime::checked_add_signed(d): None when the sum is no DateTime
checked_add_signed(dt, d) ==
    IF dt + d > MaxDateTime \/ dt + d < MinDateTime THEN <<>> ELSE <<dt + d>>

---------------------------------------------------------------------------
(* Option<T>.                                                              *)

None == <<>>
Some(x) == <<x>>
IsSome(o) == o # <<>>
Unwrap(o) == o[1]

Range(f) == {f[k] : k \in DOMAIN f}

---------------------------------------------------------------------------
(* Strings.  str::trim on the strings of the model.                        *)

Trim(s) == IF s = " " THEN "" ELSE s

\* Url::parse (AuthUrl::new, TokenUrl::new, DeviceAuthorizationUrl::new):
\* of the endpoint strings of the model the empty one does not parse.
ParsesAsUrl(s) == s # ""

---------------------------------------------------------------------------
(* The data model.                                                         *)

\* AuthData::Jwt { expires, token }
Jwt(expires, token) == [type |-> "Jwt", expires |-> expires, token |-> token]

\* AuthData::OAuth { expires, data: OAuthData }
OAuth(expires, data) == [type |-> "OAuth", expires |-> expires, data |-> data]

\* OAuthData; token is the StandardTokenResponse (access token, expires_in)
OAuthData(received, client_id, authorize_endpoint, token_endpoint, device_endpoint, scopes, token, flow) ==
    [received |-> received, client_id |-> client_id,
     authorize_endpoint |-> authorize_endpoint,
     token_endpoint |-> token_endpoint,
     device_endpoint |-> device_endpoint, scopes |-> scopes,
     token |-> token, flow |-> flow]

OAuthToken(access_token, expires_in) ==
    [access_token |-> access_token, expires_in |-> expires_in]

\* Uuid::default(), the nil uuid
NilUuid == "00000000"

\* Connection::new(server)
NewConnection(server) ==
    [server |-> Trim(server), user_id |-> NilUuid, username |-> "",
     default_subscription |-> None, auth |-> None]

is_jwt_auth(c) == IsSome(c.auth) /\ Unwrap(c.auth).type = "Jwt"
is_oauth_auth(c) == IsSome(c.auth) /\ Unwrap(c.auth).type = "OAuth"

---------------------------------------------------------------------------
(* The outside world.  env.fail names the one exchange that fails ("none": *)
(* every exchange succeeds); the first failure ends the operation, so the  *)
(* replies after it are never read.                                        *)

\* GET {server}/auth/oauth: the OAuthConfigResponse of the server
ServerOAuthConfig ==
    [client_id |-> "srv-client", authorize_endpoint |-> "https://idp/authorize",
     device_endpoint |-> "https://idp/device", token_endpoint |-> "https://idp/token",
     scopes |-> {"openid"}]

\* GET {server}/whoami: the UserModel of the server
ServerUser == [user_id |-> "uuid-alice", user_name |-> "alice"]

\* POST {server}/auth/token: the TokenResponse of the server
ServerJwtToken == "abc123"

\* account names are numbered in their lexicographic order
SubA == [account_id |-> "sub-a", account_name |-> 1]
SubB == [account_id |-> "sub-b", account_name |-> 2]

\* GET {server}/users/{id}/accounts: the replies the model draws
SubscriptionLists == {<<>>, <<SubB, SubA>>}

Env(fail, subs, device_expires_in, expires_in) ==
    [fail |-> fail, subs |-> subs, device_expires_in |-> device_expires_in,
     expires_in |-> expires_in]

\* The password supplier (the FnOnce of AuthRequest::Jwt): "given" returns the
\* password of the command line, "prompt" asks the terminal and may fail.
SupplierFails(password, env) == password = "prompt" /\ env.fail = "password"

AuthResult(status, auth, calls) == [status |-> status, auth |-> auth, calls |-> calls]

---------------------------------------------------------------------------
(* auth/jwt.rs                                                             *)

\* a slip of fetch_token: the token is stored without an expiry
fetch_token_eternal(connection, username, password, env, t) ==
    IF SupplierFails(password, env)
    THEN AuthResult("BasicAuth", None, <<"supplier">>)
    ELSE IF env.fail = "token"
    THEN AuthResult("Network", None, <<"supplier", "POST /auth/token">>)
    ELSE AuthResult("ok", Some(Jwt(None, ServerJwtToken)),
                    <<"supplier", "POST /auth/token">>)

\* a slip of fetch_token: the request is sent before the supplier is asked
fetch_token_posting_first(connection, username, password, env, t) ==
    IF env.fail = "token"
    THEN AuthResult("Network", None, <<"POST /auth/token">>)
    ELSE IF SupplierFails(password, env)
    THEN AuthResult("BasicAuth", None, <<"POST /auth/token", "supplier">>)
    ELSE AuthResult("ok", Some(Jwt(Some(t + JwtValidity), ServerJwtToken)),
                    <<"POST /auth/token", "supplier">>)

\* fetch_token: the supplier, then one POST {server}/auth/token
fetch_token(connection, username, password, env, t) ==
    IF SupplierFails(password, env)
    THEN AuthResult("BasicAuth", None, <<"supplier">>)
    ELSE IF env.fail = "token"
    THEN AuthResult("Network", None, <<"supplier", "POST /auth/token">>)
    ELSE AuthResult("ok", Some(Jwt(Some(t + JwtValidity), ServerJwtToken)),
                    <<"supplier", "POST /auth/token">>)

---------------------------------------------------------------------------
(* auth/oauth.rs                                                           *)

\* The device flow of oauth::authenticate: the endpoint checks, the
\* device-authorize POST, the prompt, the token poll, the packaging.
DeviceFlow(client_id, authorize_endpoint, token_endpoint, scopes, device_endpoint, env, t) ==
    IF device_endpoint = None
    THEN AuthResult("MissingEndpoint", None, <<>>)
    ELSE IF \/ ~ParsesAsUrl(Unwrap(device_endpoint))
            \/ ~ParsesAsUrl(authorize_endpoint)
            \/ ~ParsesAsUrl(token_endpoint)
    THEN AuthResult("ParseError", None, <<>>)
    ELSE IF env.fail = "device"
    THEN AuthResult("DeviceTokenErrorResponse", None, <<"POST device">>)
    ELSE IF env.fail = "poll"
    THEN AuthResult("TokenErrorResponse", None, <<"POST device", "prompt", "POST token">>)
    ELSE IF t + env.device_expires_in > MaxDateTime
    THEN \* Utc::now().add(details.expires_in()) overflows: chrono panics
         AuthResult("panic", None, <<"POST device", "prompt", "POST token">>)
    ELSE AuthResult("ok",
            Some(OAuth(Some(t),
                       OAuthData(t + env.device_expires_in, client_id,
                                 authorize_endpoint, token_endpoint,
                                 Some(Unwrap(device_endpoint)), scopes,
                                 OAuthToken("access", env.expires_in), "Device"))),
            <<"POST device", "prompt", "POST token">>)

\* oauth::authenticate
oauth_authenticate(client_id, authorize_endpoint, token_endpoint, scopes, device_endpoint, flow, env, t) ==
    IF flow = "Device"
    THEN DeviceFlow(client_id, authorize_endpoint, token_endpoint, scopes,
                    device_endpoint, env, t)
    ELSE \* OAuthFlow::Code, OAuthFlow::Refresh: todo!()
         AuthResult("panic", None, <<>>)

---------------------------------------------------------------------------
(* auth/mod.rs                                                             *)

\* AuthRequest::Jwt { username, password }
JwtRequest(username, password) ==
    [type |-> "Jwt", username |-> username, password |-> password]

\* AuthRequest::OAuth { client_id, device_endpoint, scopes, authorize_endpoint, token_endpoint, flow }
OAuthRequest(client_id, device_endpoint, scopes, authorize_endpoint, token_endpoint, flow) ==
    [type |-> "OAuth", client_id |-> client_id, device_endpoint |-> device_endpoint,
     scopes |-> scopes, authorize_endpoint |-> authorize_endpoint,
     token_endpoint |-> token_endpoint, flow |-> flow]

\* a slip of refresh_oauth: 204 No Content is read as a discovery document
refresh_oauth_lenient(connection, env) ==
    IF env.fail = "discovery" THEN [status |-> "Network"]
    ELSE [status |-> "ok", oauth |-> ServerOAuthConfig]

\* Connection::refresh_oauth: GET {server}/auth/oauth (connect.rs)
refresh_oauth(connection, env) ==
    IF env.fail = "discovery" THEN [status |-> "Network"]
    ELSE IF env.fail = "discovery_204" THEN [status |-> "ConfigurationError"]
    ELSE [status |-> "ok", oauth |-> ServerOAuthConfig]

Prepend(call, r) == AuthResult(r.status, r.auth, <<call>> \o r.calls)

\* oauth::authenticate with the fields of the discovery document
Discovered(oauth, flow, env, t) ==
    oauth_authenticate(oauth.client_id, oauth.authorize_endpoint, oauth.token_endpoint,
                       oauth.scopes, Some(oauth.device_endpoint), flow, env, t)

\* AuthRequest::authenticate on the OAuth variant: the caller's scopes are
\* dropped, discovery (when client_id is blank) replaces every field
authenticate_oauth(req, connection, env, t) ==
    IF Trim(req.client_id) = ""
    THEN IF refresh_oauth(connection, env).status # "ok"
         THEN AuthResult(refresh_oauth(connection, env).status, None, <<"GET /auth/oauth">>)
         ELSE Prepend("GET /auth/oauth",
                      Discovered(refresh_oauth(connection, env).oauth, req.flow, env, t))
    ELSE oauth_authenticate(req.client_id, req.authorize_endpoint, req.token_endpoint,
                            {}, req.device_endpoint, req.flow, env, t)

\* AuthRequest::authenticate
authenticate(req, connection, env, t) ==
    Prepend("authenticate",
            IF req.type = "Jwt"
            THEN fetch_token(connection, req.username, req.password, env, t)
            ELSE authenticate_oauth(req, connection, env, t))

-------------------------------------------------------------------------------------------------------------------------------------------------
(* connect.rs: Connection::refresh_auth                                    *)

RefreshResult(status, connection, calls) ==
    [status |-> status, connection |-> connection, calls |-> calls]

\* a slip of the arm (None, None): the missing credential goes unreported
refresh_unauthenticated_silent(c) == RefreshResult("ok", c, <<>>)

\* the arm (None, None): nothing stored, no new request
refresh_unauthenticated(c) == RefreshResult("NoAuthentication", c, <<>>)

\* the OAuth arm of (Some(a), None) for a token that reports expires_in;
\* secs is expires_in.as_secs() as i64
refresh_stored_expiring(c, received, secs, t) ==
    IF ~DurationInBounds(secs)
    THEN RefreshResult("panic", c, <<>>)
    ELSE IF checked_add_signed(received, secs) = None
    THEN \* .ok_or(ConnectError::Auth(AuthError::Expired))?
         RefreshResult("Expired", c, <<>>)
    ELSE IF t > Unwrap(checked_add_signed(received, secs))
    THEN RefreshResult("Expired", c, <<>>)
    ELSE RefreshResult("ok", c, <<>>)

\* the arm (Some(a), None): a credential is stored, no new request
refresh_stored(c, a, t) ==
    IF a.type = "Jwt"
    THEN RefreshResult("Expired", c, <<>>)
    ELSE IF IsSome(a.data.token.expires_in)
    THEN refresh_stored_expiring(c, a.data.received,
                                 AsI64(Unwrap(a.data.token.expires_in)), t)
    ELSE RefreshResult("ok", c, <<>>)

\* a slip of store_auth: a stored credential of the other variant is kept
store_auth_keeping(c, r) ==
    IF r.status = "ok"
    THEN RefreshResult("ok",
                       IF IsSome(c.auth) /\ Unwrap(c.auth).type # Unwrap(r.auth).type
                       THEN c
                       ELSE [c EXCEPT !.auth = r.auth],
                       r.calls)
    ELSE RefreshResult(r.status, c, r.calls)

\* a slip of store_auth: a failed authentication drops the stored credential
store_auth_clearing(c, r) ==
    IF r.status = "ok"
    THEN RefreshResult("ok", [c EXCEPT !.auth = r.auth], r.calls)
    ELSE RefreshResult(r.status, [c EXCEPT !.auth = None], r.calls)

\* self.auth = Some(auth) when authenticate returned Ok(auth); r is what
\* a.authenticate(client, self) returned
store_auth(c, r) ==
    IF r.status = "ok"
    THEN RefreshResult("ok", [c EXCEPT !.auth = r.auth], r.calls)
    ELSE RefreshResult(r.status, c, r.calls)

\* the arm (_, Some(a)): a new request
refresh_new(c, req, env, t) == store_auth(c, authenticate(req, c, env, t))

\* Connection::refresh_auth(&mut self, auth: Option<AuthRequest>).  The HTTP
\* client it builds first (client_builder().build()?) is taken to build.
refresh_auth(c, auth, env, t) ==
    IF auth = None
    THEN IF c.auth = None
         THEN refresh_unauthenticated(c)
         ELSE refresh_stored(c, Unwrap(c.auth), t)
    ELSE refresh_new(c, Unwrap(auth), env, t)

-----
(* SpecAuth: refresh_auth on one Connection.                               *)

Server == "https://logship.example"

\* the lifetimes (u64 seconds) a token response may carry: none, in range,
\* past the last DateTime, past the last Duration, past the last i64
ExpiresInValues ==
    {None} \cup {Some(d) : d \in 0..MaxExpiresIn}
           \cup {Some(OutOfRange), Some(DurationMax + 1), Some(U64Max)}

\* the lifetimes a device-authorize response may carry
DeviceExpiresInValues == (0..MaxDeviceExpiresIn) \cup {OutOfRange}

\* the credentials a Connection read from a configuration file may hold
StoredCredentials ==
    {None}
    \cup {Some(Jwt(e, ServerJwtToken)) : e \in {None} \cup {Some(t) : t \in 0..MaxTime}}
    \cup {Some(OAuth(Some(r),
                     OAuthData(r, ServerOAuthConfig.client_id,
                               ServerOAuthConfig.authorize_endpoint,
                               ServerOAuthConfig.token_endpoint,
                               Some(ServerOAuthConfig.device_endpoint),
                               ServerOAuthConfig.scopes,
                               OAuthToken("access", d), "Device")))
            : r \in 0..MaxTime, d \in ExpiresInValues}

StoredConnections ==
    {[NewConnection(Server) EXCEPT !.user_id = ServerUser.user_id,
                                   !.username = ServerUser.user_name,
                                   !.auth = a] : a \in StoredCredentials}

\* the requests refresh_auth is called with
OAuthRequests ==
    {OAuthRequest("", None, {}, "", "", "Device"),
     OAuthRequest(" ", Some("https://my/device"), {"profile"}, "https://my/authorize", "https://my/token", "Device"),
     OAuthRequest("my-client", Some("https://my/device"), {"profile"}, "https://my/authorize", "https://my/token", "Device"),
     OAuthRequest("my-client", None, {}, "https://my/authorize", "https://my/token", "Device"),
     OAuthRequest("my-client", Some(""), {}, "https://my/authorize", "https://my/token", "Device"),
     OAuthRequest("", None, {}, "", "", "Code"),
     OAuthRequest("my-client", Some("https://my/device"), {}, "https://my/authorize", "https://my/token", "Refresh")}

JwtRequests == {JwtRequest("alice", "prompt"), JwtRequest("alice", "given")}

\* The replies of the outside world to a JWT exchange.  Replies that differ
\* only in an exchange the request never reaches are drawn once.
JwtEnvsFor(req) ==
    {Env(f, <<>>, 0, None) : f \in IF req.password = "prompt"
                                   THEN {"none", "password", "token"}
                                   ELSE {"none", "token"}}

DiscoveryFailures == {Env(f, <<>>, 0, None) : f \in {"discovery", "discovery_204"}}

DeviceFlowEnvs ==
    {Env(f, <<>>, 0, None) : f \in {"device", "poll"}}
    \cup {Env("none", <<>>, d, e) : d \in DeviceExpiresInValues, e \in ExpiresInValues}

\* the replies of the outside world to an OAuth exchange
OAuthEnvsFor(req) ==
    LET discovers == Trim(req.client_id) = ""
        starts == /\ req.flow = "Device"
                  /\ \/ discovers
                     \/ /\ IsSome(req.device_endpoint)
                        /\ ParsesAsUrl(Unwrap(req.device_endpoint))
                        /\ ParsesAsUrl(req.authorize_endpoint)
                        /\ ParsesAsUrl(req.token_endpoint)
    IN  (IF discovers THEN DiscoveryFailures ELSE {})
        \cup (IF starts THEN DeviceFlowEnvs ELSE {Env("none", <<>>, 0, None)})

NoEnv == Env("none", <<>>, 0, None)

\* what a refresh_auth call did
AuthRecord(auth, env, r) ==
    [op |-> "refresh_auth", auth |-> auth, env |-> env, before |-> conn,
     time |-> now, status |-> r.status, calls |-> r.calls]

Refreshed(auth, env, r) ==
    /\ conn' = r.connection
    /\ result' = AuthRecord(auth, env, r)
    /\ UNCHANGED <<now, file, proc>>

RefreshAuth(auth, env) == Refreshed(auth, env, refresh_auth(conn, auth, env, now))

RefreshAuthNone == RefreshAuth(None, NoEnv)

RefreshAuthJwt == \E req \in JwtRequests : \E env \in JwtEnvsFor(req) : RefreshAuth(Some(req), env)

RefreshAuthOAuth == \E req \in OAuthRequests : \E env \in OAuthEnvsFor(req) : RefreshAuth(Some(req), env)

Tick ==
    /\ now < MaxTime
    /\ now' = now + 1
    /\ UNCHANGED <<conn, file, result, proc>>

\* Configuration::default()
DefaultConfiguration == [default_connection |-> "", connections |-> <<>>]

NoFile == [exists |-> FALSE, content |-> DefaultConfiguration]

NoResult == [op |-> "none"]

\* no invocation in flight
NoProc == <<>>

InitAuth ==
    /\ now = 0
    /\ conn \in StoredConnections
    /\ file = NoFile
    /\ result = NoResult
    /\ proc = NoProc

NextAuth == Tick \/ RefreshAuthNone \/ RefreshAuthJwt \/ RefreshAuthOAuth

SpecAuth == InitAuth /\ [][NextAuth]_vars

-------------------------------------------------------------------------------------------------------------------------------------------------
(* logsh-core/src/config.rs: the configuration store.                      *)

\* The file holds the JSON document serde_json::to_string writes for the
\* derived Serialize of Configuration.  A JSON object is a function of its
\* keys.  An Option is written as its value or as null; a null member and a
\* missing member read back alike, so the model writes null as no member.

\* DateTime<Utc>: the RFC 3339 text of the instant
SerializeDateTime(t) == [rfc3339 |-> t]

DeserializeDateTime(j) == j.rfc3339

\* OAuthToken (StandardTokenResponse): access_token, token_type, expires_in
SerializeOAuthToken(token) ==
    [k \in {"access_token", "token_type"}
            \cup (IF IsSome(token.expires_in) THEN {"expires_in"} ELSE {}) |->
        CASE k = "access_token" -> token.access_token
          [] k = "token_type" -> "bearer"
          [] k = "expires_in" -> Unwrap(token.expires_in)]

DeserializeOAuthToken(j) ==
    OAuthToken(j.access_token,
               IF "expires_in" \in DOMAIN j THEN Some(j.expires_in) ELSE None)

\* OAuthData, a struct: one member per field
SerializeOAuthData(d) ==
    [k \in {"received", "client_id", "authorize_endpoint", "token_endpoint",
            "scopes", "token", "flow"}
            \cup (IF IsSome(d.device_endpoint) THEN {"device_endpoint"} ELSE {}) |->
        CASE k = "received" -> SerializeDateTime(d.received)
          [] k = "client_id" -> d.client_id
          [] k = "authorize_endpoint" -> d.authorize_endpoint
          [] k = "token_endpoint" -> d.token_endpoint
          [] k = "device_endpoint" -> Unwrap(d.device_endpoint)
          [] k = "scopes" -> d.scopes
          [] k = "token" -> SerializeOAuthToken(d.token)
          [] k = "flow" -> d.flow]

DeserializeOAuthData(j) ==
    OAuthData(DeserializeDateTime(j.received), j.client_id, j.authorize_endpoint,
              j.token_endpoint,
              IF "device_endpoint" \in DOMAIN j THEN Some(j.device_endpoint) ELSE None,
              j.scopes, DeserializeOAuthToken(j.token), j.flow)

\* the members of a variant of AuthData
SerializeAuthFields(a) ==
    [k \in (IF a.type = "Jwt" THEN {"token"} ELSE {"data"})
            \cup (IF IsSome(a.expires) THEN {"expires"} ELSE {}) |->
        CASE k = "token" -> a.token
          [] k = "data" -> SerializeOAuthData(a.data)
          [] k = "expires" -> SerializeDateTime(Unwrap(a.expires))]

\* AuthData, an enum: an object whose one member is named after the variant
SerializeAuthData(a) == [k \in {a.type} |-> SerializeAuthFields(a)]

DeserializeExpires(j) ==
    IF "expires" \in DOMAIN j THEN Some(DeserializeDateTime(j.expires)) ELSE None

DeserializeAuthData(j) ==
    IF "Jwt" \in DOMAIN j
    THEN Jwt(DeserializeExpires(j.Jwt), j.Jwt.token)
    ELSE OAuth(DeserializeExpires(j.OAuth), DeserializeOAuthData(j.OAuth.data))

\* a slip of the derive: the private field auth is skipped
SerializeConnectionSkippingAuth(c) ==
    [k \in {"server", "user_id", "username"}
            \cup (IF IsSome(c.default_subscription) THEN {"default_subscription"} ELSE {}) |->
        CASE k = "server" -> c.server
          [] k = "user_id" -> c.user_id
          [] k = "username" -> c.username
          [] k = "default_subscription" -> Unwrap(c.default_subscription)]

\* Connection, a struct: one member per field, the private auth included
SerializeConnection(c) ==
    [k \in {"server", "user_id", "username"}
            \cup (IF IsSome(c.default_subscription) THEN {"default_subscription"} ELSE {})
            \cup (IF IsSome(c.auth) THEN {"auth"} ELSE {}) |->
        CASE k = "server" -> c.server
          [] k = "user_id" -> c.user_id
          [] k = "username" -> c.username
          [] k = "default_subscription" -> Unwrap(c.default_subscription)
          [] k = "auth" -> SerializeAuthData(Unwrap(c.auth))]

DeserializeConnection(j) ==
    [server |-> j.server, user_id |-> j.user_id, username |-> j.username,
     default_subscription |->
         IF "default_subscription" \in DOMAIN j
         THEN Some(j.default_subscription) ELSE None,
     auth |-> IF "auth" \in DOMAIN j THEN Some(DeserializeAuthData(j.auth)) ELSE None]

\* serde_json::to_string(&config)
to_string(cfg) ==
    [default_connection |-> cfg.default_connection,
     connections |-> [n \in DOMAIN cfg.connections |->
                         SerializeConnection(cfg.connections[n])]]

\* the members a variant of AuthData cannot be read without
AuthDataComplete(j) ==
    \/ /\ DOMAIN j = {"Jwt"}
       /\ "token" \in DOMAIN j.Jwt
    \/ /\ DOMAIN j = {"OAuth"}
       /\ "data" \in DOMAIN j.OAuth
       /\ {"received", "client_id", "authorize_endpoint", "token_endpoint",
           "scopes", "token", "flow"} \subseteq DOMAIN j.OAuth.data

\* the members a Connection cannot be read without: every field that is not
\* an Option
ConnectionComplete(j) ==
    /\ {"server", "user_id", "username"} \subseteq DOMAIN j
    /\ "auth" \in DOMAIN j => AuthDataComplete(j.auth)

ConfigurationComplete(doc) ==
    /\ {"default_connection", "connections"} \subseteq DOMAIN doc
    /\ \A n \in DOMAIN doc.connections : ConnectionComplete(doc.connections[n])

\* the Configuration a complete document holds; members the structs do not
\* name are skipped
DeserializeConfiguration(doc) ==
    [default_connection |-> doc.default_connection,
     connections |-> [n \in DOMAIN doc.connections |->
                         DeserializeConnection(doc.connections[n])]]

\* a slip of load: a document that cannot be read counts as no document
from_str_lenient(doc) ==
    IF ConfigurationComplete(doc)
    THEN Some(DeserializeConfiguration(doc))
    ELSE Some(DefaultConfiguration)

\* serde_json::from_str(&cfg): None is the serde_json::Error
from_str(doc) ==
    IF ConfigurationComplete(doc)
    THEN Some(DeserializeConfiguration(doc))
    ELSE None

\* config::load() fails with ConfigError::FailedDeserialize
load_fails(f) == f.exists /\ from_str(f.content) = None

\* config::load() where it succeeds: the file's configuration, or the
\* default when there is no file.  The handlers run on it after `load()?`.
load(f) == IF f.exists THEN Unwrap(from_str(f.content)) ELSE DefaultConfiguration

\* config::save(config): the file is overwritten
save(cfg) == [exists |-> TRUE, content |-> to_string(cfg)]

\* connections.iter().next(): a HashMap iterates in an arbitrary order, so
\* the first entry is any key of the map; nothing when the map is empty
IterNext(cfg) ==
    IF DOMAIN cfg.connections = {} THEN {None}
    ELSE {Some(n) : n \in DOMAIN cfg.connections}

\* ConnectionConfig { name, connection }
ConnectionConfig(name, connection) ==
    [kind |-> "Some", name |-> name, connection |-> connection]

\* conn.unwrap() on None
Panicked == [kind |-> "panic"]

\* a slip of get_default_connection: no fallback for a stale default
get_default_connection_strict(cfg, next) ==
    IF cfg.default_connection \in DOMAIN cfg.connections
    THEN ConnectionConfig(cfg.default_connection,
                          cfg.connections[cfg.default_connection])
    ELSE Panicked

\* Configuration::get_default_connection; next is connections.iter().next()
get_default_connection(cfg, next) ==
    IF cfg.default_connection \in DOMAIN cfg.connections
    THEN ConnectionConfig(cfg.default_connection,
                          cfg.connections[cfg.default_connection])
    ELSE IF next = None
    THEN Panicked
    ELSE ConnectionConfig(cfg.default_connection, cfg.connections[Unwrap(next)])

\* a slip of the insertion: the map is built anew around the entry
InsertAlone(connections, name, c) == [n \in {name} |-> c]

\* HashMap::insert
Insert(connections, name, c) ==
    [n \in DOMAIN connections \cup {name} |->
        IF n = name THEN c ELSE connections[n]]

\* HashMap::remove
Remove(connections, name) ==
    [n \in DOMAIN connections \ {name} |-> connections[n]]

---------------------------------------------------------------------------
(* logsh-core/src/connect.rs: add_connect                                  *)

\* subs.sort_by(account_name): insertion of one element into a sorted list
RECURSIVE InsertSorted(_, _)
InsertSorted(x, sorted) ==
    IF sorted = <<>> THEN <<x>>
    ELSE IF x.account_name < Head(sorted).account_name THEN <<x>> \o sorted
    ELSE <<Head(sorted)>> \o InsertSorted(x, Tail(sorted))

RECURSIVE SortByName(_)
SortByName(subs) ==
    IF subs = <<>> THEN <<>>
    ELSE InsertSorted(subs[Len(subs)], SortByName(SubSeq(subs, 1, Len(subs) - 1)))

\* subs.first().map(|s| s.account_id)
FirstAccountId(subs) == IF subs = <<>> THEN None ELSE Some(Head(subs).account_id)

ConnectResult(status, connection, f, calls) ==
    [status |-> status, connection |-> connection, file |-> f, calls |-> calls]

\* who_am_i, subscriptions and the update of the identity, after the
\* refresh_auth that returned r; Some(c) updated when all three succeed
Identified(r, env) ==
    IF r.status # "ok"
    THEN [status |-> r.status, connection |-> None, calls |-> r.calls]
    ELSE IF env.fail = "whoami"
    THEN [status |-> "Network", connection |-> None,
          calls |-> r.calls \o <<"GET /whoami">>]
    ELSE IF env.fail = "subs"
    THEN [status |-> "Network", connection |-> None,
          calls |-> r.calls \o <<"GET /whoami", "GET /accounts">>]
    ELSE LET subs == SortByName(env.subs)
             d == IF r.connection.default_subscription = None
                  THEN FirstAccountId(subs)
                  ELSE r.connection.default_subscription
         IN  [status |-> "ok",
              connection |-> Some([r.connection EXCEPT
                                      !.user_id = ServerUser.user_id,
                                      !.username = ServerUser.user_name,
                                      !.default_subscription = d]),
              calls |-> r.calls \o <<"GET /whoami", "GET /accounts">>]

\* c.refresh_auth(auth)?, then the identity
Identify(c, auth, env, t) == Identified(refresh_auth(c, auth, env, t), env)

\* a slip of add_connect: the configuration is saved before the `?` on the
\* identification
ConnectGivenSaving(i, f) ==
    IF i.status # "ok"
    THEN ConnectResult(i.status, None, save(load(f)), <<"load">> \o i.calls \o <<"save">>)
    ELSE ConnectResult("ok", i.connection, save(load(f)),
                       <<"load">> \o i.calls \o <<"save">>)

\* the arm of add_connect for a connection passed in; i is its identification
ConnectGiven(i, f) ==
    IF i.status # "ok"
    THEN ConnectResult(i.status, None, f, <<"load">> \o i.calls)
    ELSE ConnectResult("ok", i.connection, save(load(f)),
                       <<"load">> \o i.calls \o <<"save">>)

\* the arm of add_connect for the occupied entry; i is its identification
ConnectEntry(name, i, f) ==
    IF i.status # "ok"
    THEN ConnectResult(i.status, None, f, <<"load">> \o i.calls)
    ELSE ConnectResult("ok", i.connection,
            save([load(f) EXCEPT !.connections =
                     Insert(load(f).connections, name, Unwrap(i.connection))]),
            <<"load">> \o i.calls \o <<"save">>)

\* add_connect(name, connection, auth): the file is saved as it was loaded
\* when a connection is passed in, and with the entry updated in place when
\* none is passed in
add_connect(name, connection, auth, f, env, t) ==
    IF IsSome(connection)
    THEN ConnectGiven(Identify(Unwrap(connection), auth, env, t), f)
    ELSE IF name \in DOMAIN load(f).connections
    THEN ConnectEntry(name, Identify(load(f).connections[name], auth, env, t), f)
    ELSE ConnectResult("NoConnection", None, f, <<"load">>)

---------------------------------------------------------------------------
(* src/connect.rs: execute_connect.  A run gives the file it leaves, its   *)
(* outcome and its calls.                                                  *)

Run(op, name, status, f, calls) ==
    [op |-> op, name |-> name, status |-> status, file |-> f, calls |-> calls]

\* server.or_else(|| cfg.connections.get(&name).map(|s| s.server))
ResolveServer(server, cfg, name) ==
    IF IsSome(server) THEN server
    ELSE IF name \in DOMAIN cfg.connections
    THEN Some(cfg.connections[name].server)
    ELSE None

\* default.unwrap_or(true)
UnwrapOrTrue(default) == IF default = None THEN TRUE ELSE Unwrap(default)

\* the configuration an Add saves: cfg is the configuration loaded at the
\* start, connection what add_connect returned
AddedConfiguration(name, default, cfg, connection) ==
    [default_connection |->
         IF UnwrapOrTrue(default) THEN name ELSE cfg.default_connection,
     connections |-> Insert(cfg.connections, name, connection)]

\* the end shared by both Add arms: c is what add_connect returned, cfg the
\* configuration loaded at the start; the insertion, the default flag, the save
Added(op, name, default, cfg, c) ==
    IF c.status # "ok"
    THEN Run(op, name, c.status, c.file, <<"load">> \o c.calls)
    ELSE Run(op, name, "ok",
             save(AddedConfiguration(name, default, cfg, Unwrap(c.connection))),
             <<"load">> \o c.calls \o <<"save">>)

\* both Add arms: the load, the server, Connection::new, add_connect
AddWith(op, name, server, default, auth, f, env, t) ==
    IF ResolveServer(server, load(f), name) = None
    THEN Run(op, name, "MissingServer", f, <<"load">>)
    ELSE Added(op, name, default, load(f),
               add_connect(name,
                           Some(NewConnection(Unwrap(ResolveServer(server, load(f), name)))),
                           Some(auth), f, env, t))

\* ConfigConnectionCommand::Add(AddConnectionCommand::Basic { .. })
AddBasicRun(name, server, default, username, password, f, env, t) ==
    AddWith("add_basic", name, server, default,
            JwtRequest(username, password), f, env, t)

\* ConfigConnectionCommand::Add(AddConnectionCommand::OAuth { .. })
AddOAuthRun(name, server, default, f, env, t) ==
    AddWith("add_oauth", name, server, default,
            OAuthRequest("", None, {}, "", "", "Device"), f, env, t)

\* ConfigConnectionCommand::Remove { name }
RemoveRun(name, f) ==
    LET cfg == load(f) IN
    IF name \in DOMAIN cfg.connections
    THEN Run("remove", name, "ok",
             save([cfg EXCEPT !.connections = Remove(cfg.connections, name)]),
             <<"load", "save">>)
    ELSE Run("remove", name, "ok", f, <<"load">>)

\* a slip of the Default handler: the name is not looked up
DefaultRunUnchecked(name, f) ==
    Run("default", name, "ok",
        save([load(f) EXCEPT !.default_connection = name]), <<"load", "save">>)

\* ConfigConnectionCommand::Default { name }
DefaultRun(name, f) ==
    LET cfg == load(f) IN
    IF name \notin DOMAIN cfg.connections
    THEN Run("default", name, "NotInConfiguration", f, <<"load">>)
    ELSE Run("default", name, "ok",
             save([cfg EXCEPT !.default_connection = name]), <<"load", "save">>)

\* ConfigConnectionCommand::Login { name }: the connection is looked up and
\* added again under the name the lookup gave
LoginAs(r) == Run("login", r.name, r.status, r.file, <<"load">> \o r.calls)

\* the lookup of Login: the named entry, or the default connection
LoginLookup(name, cfg, next) ==
    IF IsSome(name)
    THEN IF Unwrap(name) \in DOMAIN cfg.connections
         THEN ConnectionConfig(Unwrap(name), cfg.connections[Unwrap(name)])
         ELSE [kind |-> "None"]
    ELSE get_default_connection(cfg, next)

\* the match on the lookup's result
LoginFound(found, f, env, t) ==
    IF found.kind = "panic"
    THEN Run("login", "", "panic", f, <<"load">>)
    ELSE IF found.kind = "None"
    THEN Run("login", "", "NoConnection", f, <<"load">>)
    ELSE IF is_jwt_auth(found.connection)
    THEN LoginAs(AddBasicRun(found.name, Some(found.connection.server), None,
                             found.connection.username, "prompt", f, env, t))
    ELSE IF is_oauth_auth(found.connection)
    THEN LoginAs(AddOAuthRun(found.name, None, None, f, env, t))
    ELSE Run("login", found.name, "NoAuthenticationScheme", f, <<"load">>)

LoginRun(name, next, f, env, t) == LoginFound(LoginLookup(name, load(f), next), f, env, t)

---------------------------------------------------------------------------
(* src/subscription.rs: execute_subscription.                              *)

\* the entry named name with default_subscription = Some(id); a name that is
\* no key changes nothing (the iter_mut().for_each of the handler)
WithDefaultSubscription(cfg, name, id) ==
    [cfg EXCEPT !.connections =
        [n \in DOMAIN cfg.connections |->
            IF n = name
            THEN [cfg.connections[n] EXCEPT !.default_subscription = Some(id)]
            ELSE cfg.connections[n]]]

\* the listing and what follows it: d is the default connection
SubscriptionDefaultFound(id, d, f, env) ==
    IF env.fail = "subs"
    THEN Run("subscription_default", d.name, "Network", f,
             <<"load", "load", "GET /accounts">>)
    ELSE IF \A i \in DOMAIN env.subs : env.subs[i].account_id # id
    THEN Run("subscription_default", d.name, "SubscriptionNotFound", f,
             <<"load", "load", "GET /accounts">>)
    ELSE Run("subscription_default", d.name, "ok",
             save(WithDefaultSubscription(load(f), d.name, id)),
             <<"load", "load", "GET /accounts", "save">>)

\* SubscriptionCommand::Default { id }; next is connections.iter().next()
SubscriptionDefaultRun(id, next, f, env) ==
    IF get_default_connection(load(f), next).kind = "panic"
    THEN Run("subscription_default", "", "panic", f, <<"load">>)
    ELSE SubscriptionDefaultFound(id, get_default_connection(load(f), next), f, env)

---------------------------------------------------------------------------
(* Spec: the CLI invocations, one after the other, on one configuration    *)
(* file.  The invocations read the clock only to stamp a credential, so    *)
(* Spec holds the clock still.                                             *)

\* the connection names of the command lines
ConnectionNames == {"dev", "prod"}

\* a name no connection was ever added under
UnknownName == "ghost"

ServerArgs == {None, Some(Server)}

\* the default flag of an add; Login passes None, which counts as true
DefaultArgs == {Some(TRUE), Some(FALSE)}

\* what follows authentication: whoami fails, the listing fails, or a listing
IdentityEnvs(d, e) ==
    {Env(f, <<>>, d, e) : f \in {"whoami", "subs"}}
    \cup {Env("none", subs, d, e) : subs \in SubscriptionLists}

\* the replies of the outside world to `connection add basic`
BasicCases ==
    {<<"given", env>> : env \in {Env("token", <<>>, 0, None)} \cup IdentityEnvs(0, None)}
    \cup {<<"prompt", Env("password", <<>>, 0, None)>>}

\* the replies of the outside world to `connection add oauth`
OAuthCases ==
    {Env(f, <<>>, 0, None) : f \in {"discovery", "discovery_204", "device", "poll"}}
    \cup IdentityEnvs(MaxDeviceExpiresIn, Some(MaxExpiresIn))

\* the replies of the outside world to `connection login`
LoginCases ==
    {Env(f, <<>>, 0, None) : f \in {"password", "token", "discovery_204", "poll"}}
    \cup IdentityEnvs(MaxDeviceExpiresIn, Some(MaxExpiresIn))

Finish(r) ==
    /\ file' = r.file
    /\ result' = [op |-> r.op, name |-> r.name, status |-> r.status, calls |-> r.calls]
    /\ UNCHANGED <<now, conn, proc>>

AddBasic ==
    \E name \in ConnectionNames, server \in ServerArgs, default \in DefaultArgs :
    \E case \in BasicCases :
        Finish(AddBasicRun(name, server, default, "alice", case[1], file, case[2], now))

AddOAuth ==
    \E name \in ConnectionNames, server \in ServerArgs, default \in DefaultArgs :
    \E env \in OAuthCases :
        Finish(AddOAuthRun(name, server, default, file, env, now))

RemoveConnection ==
    \E name \in ConnectionNames \cup {UnknownName} : Finish(RemoveRun(name, file))

SetDefault ==
    \E name \in ConnectionNames \cup {UnknownName} : Finish(DefaultRun(name, file))

Login ==
    \E name \in {None} \cup {Some(n) : n \in ConnectionNames \cup {UnknownName}} :
    \E next \in IterNext(load(file)), env \in LoginCases :
        Finish(LoginRun(name, next, file, env, now))

SubscriptionDefault ==
    \E id \in {SubA.account_id, SubB.account_id} :
    \E next \in IterNext(load(file)), env \in IdentityEnvs(0, None) \ {Env("whoami", <<>>, 0, None)} :
        Finish(SubscriptionDefaultRun(id, next, file, env))

\* main with no subcommand: load, then get_default_connection
StatusRecord(d) == [op |-> "status", status |-> d.kind, found |-> d, calls |-> <<"load">>]

Status ==
    \E next \in IterNext(load(file)) :
        /\ result' = StatusRecord(get_default_connection(load(file), next))
        /\ UNCHANGED <<now, conn, file, proc>>

Init ==
    /\ now = 0
    /\ conn = NewConnection(Server)
    /\ file = NoFile
    /\ result = NoResult
    /\ proc = NoProc

Next ==
    \/ AddBasic
    \/ AddOAuth
    \/ RemoveConnection
    \/ SetDefault
    \/ Login
    \/ Status

Spec == Init /\ [][Next]_vars

\* SpecSub: the invocations of a user of basic-auth connections, who also
\* runs `subscription default`
NextSub ==
    \/ AddBasic
    \/ RemoveConnection
    \/ SetDefault
    \/ Login
    \/ SubscriptionDefault

SpecSub == Init /\ [][NextSub]_vars

---------------------------------------------------------------------------
(* SpecRace: two `connection add basic` invocations at once.  No lock is   *)
(* taken on the configuration file (config.rs load, save), so the loads    *)
(* and saves of the two invocations interleave freely.                     *)

Procs == {1, 2}

\* an invocation `connection add basic <name> --server <Server> <default>`
\* before its first step
Invocation(name, default) ==
    [pc |-> "start", name |-> name, default |-> default,
     cfg |-> DefaultConfiguration, cfg2 |-> DefaultConfiguration,
     connection |-> None, status |-> "running"]

\* a slip of Written: the connections the file holds are kept
WrittenMerged(f, cfg) ==
    save([cfg EXCEPT !.connections =
             [n \in DOMAIN load(f).connections \cup DOMAIN cfg.connections |->
                 IF n \in DOMAIN cfg.connections
                 THEN cfg.connections[n]
                 ELSE load(f).connections[n]]])

\* fs::write(&path, serialized) of save: whatever the file f held is replaced
Written(f, cfg) == save(cfg)

\* what the saving steps record: the invocation and the save that wrote last
RaceRecord(last) == [op |-> "race", last |-> last]

\* let mut cfg = logsh_core::config::load()?  (src/connect.rs:58)
RaceLoad ==
    \E p \in Procs :
        /\ proc[p].pc = "start"
        /\ proc' = [proc EXCEPT ![p].pc = "loaded", ![p].cfg = load(file)]
        /\ UNCHANGED <<now, conn, file, result>>

\* let mut cfg = config::load()?  of add_connect (connect.rs:281)
RaceConnectLoad ==
    \E p \in Procs :
        /\ proc[p].pc = "loaded"
        /\ proc' = [proc EXCEPT ![p].pc = "connecting", ![p].cfg2 = load(file)]
        /\ UNCHANGED <<now, conn, file, result>>

\* the rest of add_connect for invocation p, i its identification: on
\* success config::save(cfg) of what add_connect loaded (connect.rs:319)
RaceConnected(p, i) ==
    IF i.status # "ok"
    THEN /\ proc' = [proc EXCEPT ![p].pc = "done", ![p].status = i.status]
         /\ UNCHANGED <<now, conn, file, result>>
    ELSE /\ proc' = [proc EXCEPT ![p].pc = "connected", ![p].connection = i.connection]
         /\ file' = Written(file, proc[p].cfg2)
         /\ result' = RaceRecord(Some(<<p, "add_connect">>))
         /\ UNCHANGED <<now, conn>>

RaceConnect ==
    \E p \in Procs :
        /\ proc[p].pc = "connecting"
        /\ \E case \in BasicCases :
              RaceConnected(p, Identify(NewConnection(Unwrap(ResolveServer(Some(Server), proc[p].cfg, proc[p].name))),
                                        Some(JwtRequest("alice", case[1])), case[2], now))

\* the default flag, the insertion and the save (src/connect.rs:113-119)
RaceSave ==
    \E p \in Procs :
        /\ proc[p].pc = "connected"
        /\ proc' = [proc EXCEPT ![p].pc = "done", ![p].status = "ok"]
        /\ file' = Written(file, AddedConfiguration(proc[p].name, proc[p].default, proc[p].cfg,
                                                    Unwrap(proc[p].connection)))
        /\ result' = RaceRecord(Some(<<p, "add">>))
        /\ UNCHANGED <<now, conn>>

InitRace ==
    /\ now = 0
    /\ conn = NewConnection(Server)
    /\ file = NoFile
    /\ result = RaceRecord(None)
    /\ proc \in [Procs -> {Invocation(n, d) : n \in ConnectionNames, d \in DefaultArgs}]

NextRace == RaceLoad \/ RaceConnectLoad \/ RaceConnect \/ RaceSave

SpecRace == InitRace /\ [][NextRace]_vars

---------------------------------------------------------------------------
(* SpecPoll: the poll loop of the device flow.  oauth.rs prints the prompt *)
(* and calls exchange_device_access_token(&details).request(http_client,   *)
(* std::thread::sleep, None); the loop itself is the oauth2 crate's, which *)
(* is not among the sources: it is modelled as the specification words it  *)
(* (poll at the advertised interval, continue on authorization_pending and *)
(* slow_down, stop on success, access_denied, expired_token or when the    *)
(* authorization window has elapsed).  With no timeout passed (None) the   *)
(* window is the device code's expires_in.                                 *)

\* slow_down lengthens the interval by this much
SlowDownStep == 1

\* no step of the loop takes the clock past this instant
PollHorizon == MaxTime + MaxDeviceExpiresIn + MaxInterval + 1

\* what the token endpoint goes on to answer: `pending` times
\* authorization_pending or slow_down, then `final` ("never": no final answer)
TokenEndpoints ==
    {[pending |-> n, final |-> f] :
        n \in 0..MaxPending, f \in {"success", "access_denied", "expired_token", "never"}}

\* a device flow whose device-authorize request was answered (details)
DeviceFlowInFlight(expires_in, interval, endpoint) ==
    [pc |-> "authorized", expires_in |-> expires_in, interval |-> interval,
     endpoint |-> endpoint, deadline |-> 0, outcome |-> "none"]

\* what the flow did so far: its requests and the answers to its polls
PollRecord(calls, answers) == [op |-> "device_flow", calls |-> calls, answers |-> answers]

\* a slip of WindowElapsed: the authorization window is never looked at
WindowIgnored(t, deadline) == FALSE

\* the authorization window has elapsed
WindowElapsed(t, deadline) == t > deadline

\* a poll and the sleep after it take at least one unit of time
PollTime(interval) == IF interval = 0 THEN 1 ELSE interval

\* the answers the token endpoint may give to the next poll
NextAnswers ==
    IF Len(result.answers) < proc.endpoint.pending \/ proc.endpoint.final = "never"
    THEN {"authorization_pending", "slow_down"}
    ELSE {proc.endpoint.final}

\* println!("Open this URL in your browser ..."), then request(..) starts:
\* the window runs from now
ShowPrompt ==
    /\ proc.pc = "authorized"
    /\ proc' = [proc EXCEPT !.pc = "polling", !.deadline = now + proc.expires_in]
    /\ result' = PollRecord(result.calls \o <<"prompt">>, result.answers)
    /\ UNCHANGED <<now, conn, file>>

\* the flow ends with this outcome
Ended(outcome, calls, answers) ==
    /\ proc' = [proc EXCEPT !.pc = "done", !.outcome = outcome]
    /\ result' = PollRecord(calls, answers)
    /\ UNCHANGED <<now, conn, file>>

\* the flow polls again after interval
Continued(interval, calls, answers) ==
    /\ now + PollTime(interval) <= PollHorizon
    /\ interval <= MaxInterval
    /\ now' = now + PollTime(interval)
    /\ proc' = [proc EXCEPT !.interval = interval]
    /\ result' = PollRecord(calls, answers)
    /\ UNCHANGED <<conn, file>>

\* one POST to the token endpoint, answered
Answered(answer, calls, answers) ==
    IF answer = "success" THEN Ended("Granted", calls, answers)
    ELSE IF answer = "access_denied" THEN Ended("Denied", calls, answers)
    ELSE IF answer = "expired_token" THEN Ended("Expired", calls, answers)
    ELSE IF answer = "slow_down" THEN Continued(proc.interval + SlowDownStep, calls, answers)
    ELSE Continued(proc.interval, calls, answers)

\* one turn of the loop: the window, then one poll
Poll ==
    /\ proc.pc = "polling"
    /\ IF WindowElapsed(now, proc.deadline)
       THEN Ended("Timeout", result.calls, result.answers)
       ELSE \E answer \in NextAnswers :
               Answered(answer, result.calls \o <<"POST token">>,
                        result.answers \o <<answer>>)

InitPoll ==
    /\ now \in 0..MaxTime
    /\ conn = NewConnection(Server)
    /\ file = NoFile
    /\ result = PollRecord(<<"POST device">>, <<>>)
    /\ proc \in {DeviceFlowInFlight(e, i, s) :
                    e \in 0..MaxDeviceExpiresIn, i \in 0..(MaxInterval - 1), s \in TokenEndpoints}

NextPoll == ShowPrompt \/ Poll

\* the process runs: the loop is not suspended for ever
SpecPoll == InitPoll /\ [][NextPoll]_vars /\ WF_vars(NextPoll)

---------------------------------------------------------------------------
(* SpecStore: config::load and config::save on one configuration file that *)
(* the program wrote before, that somebody wrote by hand, or that is not   *)
(* there.                                                                  *)

\* the connections a stored Configuration may hold
StoreConnections ==
    {[NewConnection(Server) EXCEPT !.user_id = ServerUser.user_id,
                                   !.username = ServerUser.user_name,
                                   !.default_subscription = s,
                                   !.auth = a] :
        s \in {None, Some(SubB.account_id)},
        a \in {None, Some(Jwt(Some(MaxTime), ServerJwtToken))}}
    \cup {[NewConnection(Server) EXCEPT !.auth =
              Some(OAuth(e, OAuthData(0, ServerOAuthConfig.client_id,
                                      ServerOAuthConfig.authorize_endpoint,
                                      ServerOAuthConfig.token_endpoint,
                                      d, ServerOAuthConfig.scopes,
                                      OAuthToken("access", x), "Device")))] :
              e \in {None, Some(MaxTime)},
              d \in {None, Some(ServerOAuthConfig.device_endpoint)},
              x \in {None, Some(MaxExpiresIn)}}

StoreNames == {"dev", "prod"}

\* the Configurations of at most one connection a name
StoreConfigurations ==
    {[default_connection |-> d, connections |-> m] :
        d \in {"", "dev"},
        m \in UNION {[names -> StoreConnections] : names \in SUBSET StoreNames}}

WithMember(doc, key, value) ==
    [k \in DOMAIN doc \cup {key} |-> IF k = key THEN value ELSE doc[k]]

WithoutMember(doc, key) == [k \in DOMAIN doc \ {key} |-> doc[k]]

\* a document of one connection "dev"
DevDocument(connection) ==
    [default_connection |-> "dev", connections |-> [dev |-> connection]]

\* documents not written by save that serde_json reads: a member that no
\* struct names
ForeignDocuments ==
    {WithMember(to_string(c), "theme", "dark") : c \in StoreConfigurations}

\* documents serde_json does not read: a field that is no Option is missing
MalformedDocuments ==
    {WithoutMember(to_string(DefaultConfiguration), "connections"),
     WithoutMember(to_string(DefaultConfiguration), "default_connection")}
    \cup {DevDocument(WithoutMember(SerializeConnection(c), "server")) :
              c \in StoreConnections}
    \cup {DevDocument(WithMember(SerializeConnection(c), "auth", [Jwt |-> [expires |-> SerializeDateTime(0)]])) :
              c \in StoreConnections}

StoreFiles ==
    {NoFile}
    \cup {save(c) : c \in StoreConfigurations}
    \cup {[exists |-> TRUE, content |-> d] : d \in ForeignDocuments \cup MalformedDocuments}

\* the Result of config::load()
LoadResult(f) ==
    IF load_fails(f)
    THEN [op |-> "load", status |-> "FailedDeserialize"]
    ELSE [op |-> "load", status |-> "ok", config |-> load(f)]

\* config::load(): the file is read, never written
Load ==
    /\ result' = LoadResult(file)
    /\ UNCHANGED <<now, conn, file, proc>>

\* config::save(config)
Save ==
    \E c \in StoreConfigurations :
        /\ file' = save(c)
        /\ result' = [op |-> "save", status |-> "ok", config |-> c]
        /\ UNCHANGED <<now, conn, proc>>

\* config::save(config::load()?): a failed load ends it before the save
Resave ==
    /\ file' = IF load_fails(file) THEN file ELSE save(load(file))
    /\ result' = [op |-> "resave",
                  status |-> IF load_fails(file) THEN "FailedDeserialize" ELSE "ok",
                  rewritten |-> ~load_fails(file) /\ save(load(file)) # file]
    /\ UNCHANGED <<now, conn, proc>>

InitStore ==
    /\ now = 0
    /\ conn = NewConnection(Server)
    /\ file \in StoreFiles
    /\ result = NoResult
    /\ proc = NoProc

NextStore == Load \/ Save \/ Resave

SpecStore == InitStore /\ [][NextStore]_vars

---------------------------------------------------------------------------
(* SpecPath: get_configuration_path called again and again by one process  *)
(* while LOGSH_CONFIG_PATH and the file system change.  proc holds the     *)
(* process: its static CONFIG_PATH (a OnceLock, None while empty), its     *)
(* environment variable, its home directory, the paths that exist, and the *)
(* result of its first call.                                               *)

PathOk(path) == [status |-> "ok", path |-> path]

\* ConfigError::InvalidConfigPath("{path} does not exist.")
InvalidConfigPath(path) == [status |-> "InvalidConfigPath", path |-> path]

\* ConfigError::NoHome
NoHome == [status |-> "NoHome"]

\* ConfigError::IOError of create_dir_all
IOError == [status |-> "IOError"]

HomeDir == "~"

\* {home}/.logsh
ConfigParent(home) == home \o "/.logsh"

\* {home}/.logsh/logsh-config.json
DefaultConfigPath(home) == home \o "/.logsh/logsh-config.json"

OverridePaths == {"/a", "/b"}

\* std::env::var("LOGSH_CONFIG_PATH")
EnvValues == {None, Some(" ")} \cup {Some(path) : path \in OverridePaths}

\* the paths that come and go
Paths == OverridePaths \cup {ConfigParent(HomeDir)}

Resolution(value, exists) == [value |-> value, exists |-> exists]

\* the default path; created tells whether create_dir_all succeeds
ResolveDefault(home, exists, created) ==
    IF home = None
    THEN Resolution(NoHome, exists)
    ELSE IF ConfigParent(Unwrap(home)) \in exists
    THEN Resolution(PathOk(DefaultConfigPath(Unwrap(home))), exists)
    ELSE IF created
    THEN Resolution(PathOk(DefaultConfigPath(Unwrap(home))),
                    exists \cup {ConfigParent(Unwrap(home))})
    ELSE Resolution(IOError, exists)

\* the closure of get_or_init: the override when it is set and not blank,
\* the default path otherwise
Resolve(env, home, exists, created) ==
    IF IsSome(env) /\ Trim(Unwrap(env)) # ""
    THEN IF Unwrap(env) \in exists
         THEN Resolution(PathOk(Unwrap(env)), exists)
         ELSE Resolution(InvalidConfigPath(Unwrap(env)), exists)
    ELSE ResolveDefault(home, exists, created)

\* CONFIG_PATH.get_or_init(..): the value of the cell, resolved when empty
GetOrInit(p, created) ==
    IF IsSome(p.config_path)
    THEN Resolution(Unwrap(p.config_path), p.exists)
    ELSE Resolve(p.env, p.home, p.exists, created)

\* a slip of get_configuration_path: the failure is cloned out of the cell,
\* which keeps it
Returned_kept(p, r) ==
    [p EXCEPT !.config_path = Some(r.value),
              !.exists = r.exists,
              !.first = IF p.first = None THEN Some(r.value) ELSE p.first]

\* the match after get_or_init: a path is cloned out of the cell, a failure
\* is taken out of it (CONFIG_PATH.take()) and leaves the cell empty
Returned(p, r) ==
    [p EXCEPT !.config_path = IF r.value.status = "ok" THEN Some(r.value) ELSE None,
              !.exists = r.exists,
              !.first = IF p.first = None THEN Some(r.value) ELSE p.first]

get_configuration_path ==
    \E created \in BOOLEAN :
        /\ proc' = Returned(proc, GetOrInit(proc, created))
        /\ result' = [op |-> "get_configuration_path",
                      returned |-> GetOrInit(proc, created).value]
        /\ UNCHANGED <<now, conn, file>>

\* the environment variable is set or removed
SetEnv ==
    \E v \in EnvValues :
        /\ proc' = [proc EXCEPT !.env = v]
        /\ result' = [op |-> "set_var"]
        /\ UNCHANGED <<now, conn, file>>

\* a path is created
Create ==
    \E path \in Paths :
        /\ proc' = [proc EXCEPT !.exists = @ \cup {path}]
        /\ result' = [op |-> "create"]
        /\ UNCHANGED <<now, conn, file>>

\* a path is deleted
Delete ==
    \E path \in Paths :
        /\ proc' = [proc EXCEPT !.exists = @ \ {path}]
        /\ result' = [op |-> "delete"]
        /\ UNCHANGED <<now, conn, file>>

InitPath ==
    /\ now = 0
    /\ conn = NewConnection(Server)
    /\ file = NoFile
    /\ result = NoResult
    /\ \E env \in EnvValues, home \in {None, Some(HomeDir)}, exists \in SUBSET Paths :
           proc = [config_path |-> None, env |-> env, home |-> home,
                   exists |-> exists, first |-> None]

NextPath == get_configuration_path \/ SetEnv \/ Create \/ Delete

SpecPath == InitPath /\ [][NextPath]_vars

---------------------------------------------------------------------------
(* SpecConnect: add_connect called as a library function, with a           *)
(* Connection passed in or for the entry the file holds, against servers   *)
(* that list different subscriptions.                                      *)

\* the default subscriptions a Connection may record
RecordedDefaults == {None, Some(SubA.account_id), Some(SubB.account_id)}

\* GET {server}/users/{id}/accounts: the replies the model draws
ConnectSubscriptionLists == {<<>>, <<SubB, SubA>>, <<SubB>>}

\* the Connections passed to add_connect
GivenConnections ==
    {[NewConnection(Server) EXCEPT !.default_subscription = d] : d \in RecordedDefaults}

\* the entry "dev" of the file add_connect loads
ConnectFiles ==
    {NoFile}
    \cup {save([default_connection |-> "dev",
                connections |-> [dev |-> [c EXCEPT !.auth = Some(Jwt(Some(JwtValidity), ServerJwtToken))]]]) :
              c \in GivenConnections}

ConnectEnvs ==
    {Env(f, <<>>, 0, None) : f \in {"token", "whoami", "subs"}}
    \cup {Env("none", subs, 0, None) : subs \in ConnectSubscriptionLists}

\* the account ids of a reply
Listed(subs) == {subs[i].account_id : i \in DOMAIN subs}

\* what a call of add_connect leaves: entered is the Connection it worked
\* on, r its ConnectResult
Connected(name, entered, env, r) ==
    [op |-> "add_connect", name |-> name, status |-> r.status,
     connection |-> r.connection, recorded |-> entered,
     listed |-> env.subs, calls |-> r.calls]

\* add_connect(name, Some(connection), Some(auth))
AddConnectGiven ==
    \E name \in ConnectionNames, c \in GivenConnections, env \in ConnectEnvs :
        /\ file' = add_connect(name, Some(c), Some(JwtRequest("alice", "given")), file, env, now).file
        /\ result' = Connected(name, Some(c.default_subscription), env,
                               add_connect(name, Some(c), Some(JwtRequest("alice", "given")), file, env, now))
        /\ UNCHANGED <<now, conn, proc>>

\* add_connect(name, None, Some(auth)): the entry of the file
AddConnectEntry ==
    \E name \in ConnectionNames, env \in ConnectEnvs :
        /\ file' = add_connect(name, None, Some(JwtRequest("alice", "given")), file, env, now).file
        /\ result' = Connected(name,
                               IF name \in DOMAIN load(file).connections
                               THEN Some(load(file).connections[name].default_subscription)
                               ELSE None,
                               env,
                               add_connect(name, None, Some(JwtRequest("alice", "given")), file, env, now))
        /\ UNCHANGED <<now, conn, proc>>

InitConnect ==
    /\ now = 0
    /\ conn = NewConnection(Server)
    /\ file \in ConnectFiles
    /\ result = NoResult
    /\ proc = NoProc

NextConnect == AddConnectGiven \/ AddConnectEntry

SpecConnect == InitConnect /\ [][NextConnect]_vars

---------------------------------------------------------------------------
(* Claims about the configuration store, checked under Spec.               *)

\* the configuration the file holds
Stored == load(file)

\* the last operation resolved the default connection of the stored configuration
Resolved == result.op = "status"

\* C1: after any sequence of add, remove and set-default from an empty
\* configuration, a non-empty connections map always resolves: the call
\* returns Some, and the connection it carries is one stored in the map.
C1_NonEmptyResolves ==
    (Resolved /\ DOMAIN Stored.connections # {}) =>
        /\ result.status = "Some"
        /\ result.found.connection \in Range(Stored.connections)

\* C1 witness: the recorded default names no entry of a non-empty map and the
\* resolution returned Some.
C1_Witness ==
    /\ Resolved
    /\ DOMAIN Stored.connections # {}
    /\ Stored.default_connection \notin DOMAIN Stored.connections
    /\ result.status = "Some"

\* C7: for an empty connections map get_default_connection returns None: it
\* neither fails nor aborts.
C7_EmptyResolvesToNone ==
    (Resolved /\ DOMAIN Stored.connections = {}) => result.status = "None"

\* C8: when default_connection matches no key, the returned name is a key of
\* connections and the returned connection is the value stored under it.
C8_FallbackNamesItsEntry ==
    (/\ Resolved
     /\ DOMAIN Stored.connections # {}
     /\ Stored.default_connection \notin DOMAIN Stored.connections) =>
        /\ result.status = "Some"
        /\ result.found.name \in DOMAIN Stored.connections
        /\ Stored.connections[result.found.name] = result.found.connection

\* C9: the fallback is deterministic: two resolutions of the same stored
\* configuration, one right after the other, return the same entry.
C9_FallbackDeterministic ==
    [][(Resolved /\ Resolved' /\ file' = file) => result'.found = result.found]_vars

\* C10: adding the first connection to an empty configuration leaves the
\* persisted default_connection equal to that connection's name, whatever
\* the default flag.
C10_FirstConnectionIsDefault ==
    [][(/\ DOMAIN Stored.connections = {}
        /\ DOMAIN Stored'.connections # {}) =>
            DOMAIN Stored'.connections = {Stored'.default_connection}]_vars

\* number of times call occurs in calls
CountOf(call, calls) == Cardinality({k \in DOMAIN calls : calls[k] = call})

\* the last operation was one invocation of `connection add | login | remove | default`
Invoked == result.op \in {"add_basic", "add_oauth", "login", "remove", "default"}

\* C12: one CLI invocation performs at most one authentication flow, loads
\* the configuration file at most once and saves it at most once.
C12_OneCyclePerInvocation ==
    Invoked =>
        /\ CountOf("authenticate", result.calls) <= 1
        /\ CountOf("load", result.calls) <= 1
        /\ CountOf("save", result.calls) <= 1

---------------------------------------------------------------------------
(* Claims about concurrent invocations, checked under SpecRace.            *)

\* the configuration the save named by last = <<p, kind>> wrote
LastWritten(last) ==
    IF last[2] = "add_connect"
    THEN proc[last[1]].cfg2
    ELSE AddedConfiguration(proc[last[1]].name, proc[last[1]].default,
                            proc[last[1]].cfg, Unwrap(proc[last[1]].connection))

\* C11: with two invocations interleaving their loads and saves, the file
\* holds exactly the configuration written by whichever save ran last: what
\* that invocation had loaded plus its own change, and nothing the other
\* invocation wrote in between.
C11_LastSaveWins ==
    (result.op = "race" /\ IsSome(result.last)) =>
        /\ file.exists
        /\ load(file) = LastWritten(Unwrap(result.last))

\* C11 witness: both invocations added a connection under different names
\* and succeeded, and the file holds only one of the two.
C11_Witness ==
    /\ result.op = "race"
    /\ \A p \in Procs : proc[p].pc = "done" /\ proc[p].status = "ok"
    /\ proc[1].name # proc[2].name
    /\ DOMAIN load(file).connections # {proc[1].name, proc[2].name}

-----
(* Claims about refresh_auth, checked under SpecAuth.                      *)

\* the last operation was refresh_auth with a new request
RefreshedWithRequest == result.op = "refresh_auth" /\ IsSome(result.auth)

\* the last operation was refresh_auth without a request
RefreshedWithoutRequest == result.op = "refresh_auth" /\ result.auth = None

\* what the last refresh_auth did agrees with r, the outcome of the strategy
Overwrites(r) ==
    /\ result.calls = r.calls
    /\ Head(result.calls) = "authenticate"
    /\ result.status = r.status
    /\ result.status = "ok" =>
           /\ conn.auth = r.auth
           /\ Unwrap(conn.auth).type = Unwrap(result.auth).type
    /\ conn = [result.before EXCEPT !.auth = conn.auth]

\* C2: refresh_auth with a new AuthRequest always runs the authentication
\* strategy, whatever is stored, and on success the stored credential is
\* exactly the AuthData the strategy returned: it is the credential the same
\* exchange yields on a connection with nothing stored, of the request's variant.
C2_NewRequestOverwrites ==
    RefreshedWithRequest =>
        Overwrites(authenticate(Unwrap(result.auth),
                                [result.before EXCEPT !.auth = None],
                                result.env, result.time))

\* C2 witness: a stored OAuth credential was replaced by the Jwt credential
\* of a successful password exchange.
C2_Witness ==
    /\ RefreshedWithRequest
    /\ result.status = "ok"
    /\ is_oauth_auth(result.before)
    /\ Unwrap(result.auth).type = "Jwt"
    /\ is_jwt_auth(conn)

\* C3: with a stored Jwt credential and no new request, refresh_auth fails
\* with Expired exactly when an expiry is stored and the time is past it,
\* and succeeds otherwise.
C3_JwtExpiredIffPast ==
    (RefreshedWithoutRequest /\ is_jwt_auth(result.before)) =>
        LET a == Unwrap(result.before.auth) IN
        IF IsSome(a.expires) /\ result.time > Unwrap(a.expires)
        THEN result.status = "Expired"
        ELSE result.status = "ok"

\* C4: with a stored OAuth credential and no new request,
\* refresh_auth fails with Expired exactly when now > received + expires_in,
\* and succeeds at every time when no expires_in was reported.
C4_OAuthExpiredIffPast ==
    (RefreshedWithoutRequest /\ is_oauth_auth(result.before)) =>
        LET d == Unwrap(result.before.auth).data IN
        IF IsSome(d.token.expires_in)
        THEN IF result.time > d.received + Unwrap(d.token.expires_in)
             THEN result.status = "Expired"
             ELSE result.status = "ok"
        ELSE result.status = "ok"

\* C5: a successful device-flow grant is stored with received equal to the
\* time of the grant; the device code's expires_in does not enter it.
C5_ReceivedIsGrantTime ==
    (/\ RefreshedWithRequest
     /\ Unwrap(result.auth).type = "OAuth"
     /\ result.status = "ok") =>
        Unwrap(conn.auth).data.received = result.time

\* C6: with nothing stored and no new request, refresh_auth fails with
\* NoAuthentication, performs no exchange and leaves the connection as it was.
C6_NoAuthentication ==
    (RefreshedWithoutRequest /\ result.before.auth = None) =>
        /\ result.status = "NoAuthentication"
        /\ result.calls = <<>>
        /\ conn = result.before

\* C6 witness: refresh_auth was called without a request on a connection
\* that holds no credential.
C6_Witness ==
    /\ RefreshedWithoutRequest
    /\ result.before.auth = None
    /\ result.status = "NoAuthentication"

\* the last operation was refresh_auth with a new OAuth request
RefreshedWithOAuth == RefreshedWithRequest /\ Unwrap(result.auth).type = "OAuth"

\* the request of the last refresh_auth had a blank client_id
BlankClientId == Trim(Unwrap(result.auth).client_id) = ""

\* the fields of the stored OAuthData are these
StoredOAuthIs(client_id, authorize_endpoint, token_endpoint, device_endpoint, scopes) ==
    /\ Unwrap(conn.auth).data.client_id = client_id
    /\ Unwrap(conn.auth).data.authorize_endpoint = authorize_endpoint
    /\ Unwrap(conn.auth).data.token_endpoint = token_endpoint
    /\ Unwrap(conn.auth).data.device_endpoint = device_endpoint
    /\ Unwrap(conn.auth).data.scopes = scopes

\* C13: with a blank client_id the discovery endpoint is called first and
\* the server-advertised client_id, endpoints and scopes replace every value of
\* the caller; with a non-empty client_id no discovery call is made and the
\* caller's values are used.
C13_DiscoveryOverridesCaller ==
    RefreshedWithOAuth =>
        IF BlankClientId
        THEN /\ Len(result.calls) >= 2
             /\ result.calls[2] = "GET /auth/oauth"
             /\ result.status = "ok" =>
                    StoredOAuthIs(ServerOAuthConfig.client_id,
                                  ServerOAuthConfig.authorize_endpoint,
                                  ServerOAuthConfig.token_endpoint,
                                  Some(ServerOAuthConfig.device_endpoint),
                                  ServerOAuthConfig.scopes)
        ELSE /\ CountOf("GET /auth/oauth", result.calls) = 0
             /\ result.status = "ok" =>
                    StoredOAuthIs(Unwrap(result.auth).client_id,
                                  Unwrap(result.auth).authorize_endpoint,
                                  Unwrap(result.auth).token_endpoint,
                                  Unwrap(result.auth).device_endpoint,
                                  Unwrap(result.auth).scopes)

\* discovery answered 204 No Content to the last refresh_auth
DiscoveryDisabled ==
    RefreshedWithOAuth /\ BlankClientId /\ result.env.fail = "discovery_204"

\* no device-authorize and no token request was sent
NoDeviceFlowRequest ==
    /\ CountOf("POST device", result.calls) = 0
    /\ CountOf("POST token", result.calls) = 0

\* C14 as stated: when discovery answers 204, authenticate with a blank
\* client_id fails with OAuthError::MissingEndpoint and no device-authorize or
\* token request is sent.
C14_DiscoveryDisabledMissingEndpoint ==
    DiscoveryDisabled =>
        /\ result.status = "MissingEndpoint"
        /\ NoDeviceFlowRequest

\* C14 as amended: when discovery answers 204, authenticate with a blank
\* client_id fails with OAuthError::ConfigurationError (MissingUrl, "oauth is
\* not configured for this server"), the discovery call is the only request
\* sent and the connection is as before.
C14_DiscoveryDisabledConfigurationError ==
    DiscoveryDisabled =>
        /\ result.status = "ConfigurationError"
        /\ result.calls = <<"authenticate", "GET /auth/oauth">>
        /\ NoDeviceFlowRequest
        /\ conn = result.before

\* C14 witness: a refresh_auth with a blank client_id met the 204 answer and
\* failed while a credential was stored.
C14_Witness ==
    /\ DiscoveryDisabled
    /\ result.status = "ConfigurationError"
    /\ IsSome(result.before.auth)

\* C15: when the caller supplies a non-empty client_id and a set of scopes,
\* exactly those scopes go to the device endpoint and into the stored OAuthData.
C15_CallerScopesAreKept ==
    (RefreshedWithOAuth /\ ~BlankClientId /\ result.status = "ok") =>
        Unwrap(conn.auth).data.scopes = Unwrap(result.auth).scopes

\* C17: authenticate with flow Code or Refresh is rejected with a typed
\* error returned to the caller: it does not abort the process, does not
\* succeed, and sends no device-authorize or token request.
C17_UnsupportedFlowsRejected ==
    (RefreshedWithOAuth /\ Unwrap(result.auth).flow \in {"Code", "Refresh"}) =>
        /\ result.status # "panic"
        /\ result.status # "ok"
        /\ NoDeviceFlowRequest

\* the last operation was refresh_auth with a new Jwt request
RefreshedWithJwt == RefreshedWithRequest /\ Unwrap(result.auth).type = "Jwt"

\* C18: a successful JWT exchange stores AuthData::Jwt whose token is the
\* token of the server's response and whose expires is present and equal to
\* the exchange time plus 24 hours.
C18_JwtExpiresInADay ==
    (RefreshedWithJwt /\ result.status = "ok") =>
        /\ is_jwt_auth(conn)
        /\ Unwrap(conn.auth).token = ServerJwtToken
        /\ IsSome(Unwrap(conn.auth).expires)
        /\ Unwrap(Unwrap(conn.auth).expires) = result.time + JwtValidity

\* C18 witness: a JWT exchange succeeded at a time after the start, on a
\* connection that held a Jwt without an expiry.
C18_Witness ==
    /\ RefreshedWithJwt
    /\ result.status = "ok"
    /\ result.time > 0
    /\ is_jwt_auth(result.before)
    /\ Unwrap(result.before.auth).expires = None

\* C19: the password supplier is invoked only by a JWT exchange (not on the
\* OAuth path, not by refresh_auth without a request), once, before the POST;
\* when it fails, authenticate fails with the BasicAuth error and no HTTP
\* request is sent.
C19_SupplierOnlyWhenNeeded ==
    result.op = "refresh_auth" =>
        IF RefreshedWithJwt
        THEN /\ CountOf("supplier", result.calls) = 1
             /\ result.calls[2] = "supplier"
             /\ CountOf("POST /auth/token", result.calls) <= 1
             /\ SupplierFails(Unwrap(result.auth).password, result.env) =>
                    /\ result.status = "BasicAuth"
                    /\ result.calls = <<"authenticate", "supplier">>
        ELSE CountOf("supplier", result.calls) = 0

\* C19 witness: the prompt of a JWT exchange was cancelled.
C19_Witness ==
    /\ RefreshedWithJwt
    /\ SupplierFails(Unwrap(result.auth).password, result.env)
    /\ result.status = "BasicAuth"

\* C20: refresh_auth changes the connection only when authentication with a
\* new request succeeds, and then only its auth field; when authenticate
\* fails, the stored credential, server, identity and default subscription
\* are as before the call.
C20_OnlyAuthOnSuccess ==
    result.op = "refresh_auth" =>
        /\ conn = [result.before EXCEPT !.auth = conn.auth]
        /\ (result.status # "ok" \/ result.auth = None) => conn = result.before

\* C20 witness: authentication with a new request failed on a connection
\* that holds a credential.
C20_Witness ==
    /\ RefreshedWithRequest
    /\ result.status \notin {"ok", "panic"}
    /\ IsSome(result.before.auth)
    /\ conn = result.before

---------------------------------------------------------------------------
(* Claims about the poll loop, checked under SpecPoll.                     *)

\* what holds of the flow at every moment: the prompt precedes the first
\* poll, Granted follows a success answer only, access_denied and
\* expired_token end the flow in failure, a timeout is reported only once
\* the window has elapsed, and no poll is sent after the flow ended
PollLoopSafe ==
    /\ CountOf("POST token", result.calls) > 0 => result.calls[2] = "prompt"
    /\ proc.outcome = "Granted" <=>
           (result.answers # <<>> /\ result.answers[Len(result.answers)] = "success")
    /\ (result.answers # <<>> /\ result.answers[Len(result.answers)] = "access_denied") <=>
           proc.outcome = "Denied"
    /\ (result.answers # <<>> /\ result.answers[Len(result.answers)] = "expired_token") <=>
           proc.outcome = "Expired"
    /\ proc.outcome = "Timeout" => now > proc.deadline
    /\ proc.outcome # "none" <=> proc.pc = "done"

\* C16: the poll loop always terminates, also when the token endpoint
\* answers authorization_pending or slow_down to every poll: it then fails
\* with a timeout once the device code's expires_in has elapsed.  It reaches
\* Granted only after a success answer, fails on access_denied and
\* expired_token, and shows the prompt before the first poll.
C16_PollLoopTerminates ==
    /\ []PollLoopSafe
    /\ <>(proc.pc = "done")
    /\ [](proc.endpoint.final = "never" => <>(proc.outcome = "Timeout"))

\* C16 witness: a flow whose every poll was answered authorization_pending or
\* slow_down ended in a timeout after at least two polls.
C16_Witness ==
    /\ result.op = "device_flow"
    /\ proc.endpoint.final = "never"
    /\ proc.outcome = "Timeout"
    /\ Len(result.answers) >= 2

---------------------------------------------------------------------------
(* Claims about load and save, checked under SpecStore.                    *)

\* C21: save(load()) leaves a readable file holding the Configuration it
\* held before (same default_connection, same names, same fields and
\* credential of every connection), and load after save(c) returns c.
C21_SaveLoadRoundTrip ==
    [][/\ (result'.op = "resave" /\ result'.status = "ok")
            => ~load_fails(file') /\ load(file') = load(file)
       /\ result'.op = "save"
            => ~load_fails(file') /\ load(file') = result'.config]_vars

\* a hand-written file with a credential was rewritten by save(load())
C21_Witness ==
    /\ result.op = "resave"
    /\ result.status = "ok"
    /\ result.rewritten
    /\ \E n \in DOMAIN load(file).connections : is_oauth_auth(load(file).connections[n])

---------------------------------------------------------------------------
(* Claims about the configuration path, checked under SpecPath.            *)

\* C23, as stated: every call of get_configuration_path returns the result
\* of the first call of the process, whatever changed in between and also
\* when the first call failed.
C23_EveryCallReturnsTheFirstResult ==
    (result.op = "get_configuration_path" /\ IsSome(proc.first))
        => result.returned = Unwrap(proc.first)

\* C23, amended: a path that was resolved is cached, and every later call
\* returns it whatever the environment variable and the file system have
\* become; a failed resolution is not cached: it leaves the cell empty, and
\* the next call resolves again against the environment and the file system
\* of its own time.
C23_ResolvedPathIsCachedFailureIsNot ==
    [][result'.op = "get_configuration_path" =>
          /\ IsSome(proc.config_path) =>
                 /\ result'.returned = Unwrap(proc.config_path)
                 /\ proc'.config_path = proc.config_path
          /\ proc.config_path = None =>
                 \E created \in BOOLEAN :
                     result'.returned = Resolve(proc.env, proc.home, proc.exists, created).value
          /\ proc'.config_path = IF result'.returned.status = "ok"
                                 THEN Some(result'.returned) ELSE None
          /\ (IsSome(proc.first) /\ Unwrap(proc.first).status = "ok") =>
                 result'.returned = Unwrap(proc.first)]_vars

\* the first call resolved the default path; the override now names another
\* path, which exists, and the call still returned the first path
C23_Witness ==
    /\ result.op = "get_configuration_path"
    /\ IsSome(proc.first)
    /\ result.returned = Unwrap(proc.first)
    /\ result.returned.status = "ok"
    /\ IsSome(proc.env)
    /\ Unwrap(proc.env) \in proc.exists
    /\ PathOk(Unwrap(proc.env)) # result.returned

---------------------------------------------------------------------------
(* Claims about add_connect, checked under SpecConnect.                    *)

\* C24: after a successful add_connect the connection's user_id and username
\* are those of whoami, and its default subscription is the recorded one
\* when that is among the subscriptions the server lists, and the first
\* listed subscription by name when none is recorded or the recorded one is
\* not among them.
C24_DefaultSubscriptionAmongListed ==
    (result.op = "add_connect" /\ result.status = "ok") =>
        /\ Unwrap(result.connection).user_id = ServerUser.user_id
        /\ Unwrap(result.connection).username = ServerUser.user_name
        /\ Unwrap(result.connection).default_subscription =
               IF /\ IsSome(Unwrap(result.recorded))
                  /\ Unwrap(Unwrap(result.recorded)) \in Listed(result.listed)
               THEN Unwrap(result.recorded)
               ELSE FirstAccountId(SortByName(result.listed))

---------------------------------------------------------------------------
(* Claims about what the invocations leave in the file.                    *)

\* the names the file holds
Names(f) == DOMAIN load(f).connections

\* C25 (SpecSub): a name leaves the persisted map only through a remove of
\* that name: add, login, set-default and subscription default delete no
\* connection, a remove deletes at most its own name, and a remove of a name
\* that is not in the map leaves the file as it was.
C25_OnlyRemoveDeletes ==
    [][/\ \A n \in Names(file) \ Names(file') :
            result'.op = "remove" /\ result'.name = n
       /\ (result'.op = "remove" /\ result'.name \notin Names(file)) => file' = file]_vars

\* a remove deleted one of two connections and the other is still there
C25_Witness ==
    /\ result.op = "remove"
    /\ result.status = "ok"
    /\ "save" \in Range(result.calls)
    /\ Names(file) # {}
    /\ result.name \notin Names(file)

\* the position of the first call of that name
First(call, calls) ==
    CHOOSE i \in DOMAIN calls : calls[i] = call /\ \A j \in 1..(i - 1) : calls[j] # call

\* C26 (Spec): an add or a login that fails at any step leaves the file
\* exactly as it was, and a run that writes has authenticated, asked whoami
\* and listed the subscriptions, in that order, before its first write.
C26_FailedAddWritesNothing ==
    [][result'.op \in {"add_basic", "add_oauth", "login"} =>
          /\ result'.status # "ok" => file' = file
          /\ "save" \in Range(result'.calls) =>
                 /\ {"authenticate", "GET /whoami", "GET /accounts"} \subseteq Range(result'.calls)
                 /\ First("authenticate", result'.calls) < First("GET /whoami", result'.calls)
                 /\ First("GET /whoami", result'.calls) < First("GET /accounts", result'.calls)
                 /\ First("GET /accounts", result'.calls) < First("save", result'.calls)]_vars

\* a login authenticated, then failed at the subscription listing, on a file
\* that holds connections
C26_Witness ==
    /\ result.op = "login"
    /\ result.status # "ok"
    /\ "GET /accounts" \in Range(result.calls)
    /\ Names(file) # {}

\* C27 (Spec): a login never changes the set of connection names.
C27_LoginKeepsNames ==
    [][result'.op = "login" => Names(file') = Names(file)]_vars

\* C28 (Spec): a successful login under a name that is not the default
\* connection leaves default_connection as it was.
C28_LoginKeepsDefault ==
    [][(/\ result'.op = "login"
        /\ result'.status = "ok"
        /\ result'.name # load(file).default_connection)
          => load(file').default_connection = load(file).default_connection]_vars

\* C29 (SpecSub): a successful login, or add under an existing name, leaves
\* the connection the default subscription that was recorded for it.
C29_ReauthenticationKeepsSubscription ==
    [][(/\ result'.op \in {"login", "add_basic"}
        /\ result'.status = "ok"
        /\ result'.name \in Names(file)
        /\ IsSome(load(file).connections[result'.name].default_subscription))
          => load(file').connections[result'.name].default_subscription
                 = load(file).connections[result'.name].default_subscription]_vars

\* C30 (Spec): set-default with a name that is no key fails and leaves the
\* file as it was; a set-default that succeeds leaves default_connection
\* equal to its name, which is a key, and every connection as it was.
C30_SetDefaultChecksTheName ==
    [][result'.op = "default" =>
          IF result'.name \in Names(file)
          THEN /\ result'.status = "ok"
               /\ load(file') = [load(file) EXCEPT !.default_connection = result'.name]
               /\ load(file').default_connection \in Names(file')
          ELSE /\ result'.status # "ok"
               /\ file' = file]_vars

\* a set-default succeeded on a file of more than one connection
C30_Witness ==
    /\ result.op = "default"
    /\ result.status = "ok"
    /\ load(file).default_connection = result.name
    /\ Names(file) \ {result.name} # {}

====
